---- MODULE Spec2Model ----
(***************************************************************************)
(* A model of speck's SpeckPlot (src/speck/draw.py): the sample grid _x,   *)
(* the ribbon curve generator _y, the noise lookup _noise, the three       *)
(* lru_cache memo tables with cache_clear / set_k, and draw.               *)
(*                                                                         *)
(* Numbers.  The code computes in float64.  The model computes in fixed    *)
(* point with two decimals: a real v is the integer v * FP.  Products are  *)
(* divided back by FP and quotients are floored.  Intensities are the      *)
(* integers 0..255 of the image's 'L' (uint8) buffer.  The logistic        *)
(* 1 / (1 + exp(-z)) is its value rounded to two decimals at integer z,    *)
(* interpolated linearly in between, and saturated where the rounded value *)
(* is 0 or 1.                                                              *)
(***************************************************************************)
EXTENDS Integers, Sequences, FiniteSets, TLC

VARIABLES
    im,       \* self.im: the grey-level buffer, a sequence of h rows of w intensities
    inter,    \* self.inter: samples per pixel
    k,        \* self.k: logistic growth rate
    ax,       \* self.ax: the axes draw fills ("own" is the one __init__ added to self.fig)
    xcache,   \* memo table of _x:     key (self)                 -> XData
    ycache,   \* memo table of _y:     key (self, weights, weight_clipping, skip) -> YData
    ncache,   \* memo table of _noise: key (self, noise)          -> NoiseData
    rng,      \* numpy's process-wide random state
    artists,  \* what each axes currently shows: axes -> sequence of filled ribbons
    call,     \* the last operation and its arguments
    ret,      \* what the last operation returned (or raised)
    computed, \* the memoized functions whose body ran during the last operation
    nhist     \* history: the _noise keys used since that table was last cleared, least
              \* recently used first, each with the offsets of its first call

vars == <<im, inter, k, ax, xcache, ycache, ncache, rng, artists, call, ret, computed,
          nhist>>

-----------------------------------------------------------------------------
(* Fixed point *)

FP == 10 * 10                \* resolution of the fixed-point reals: 1/100

None == "None"               \* Python's None, where the other values are names
NoneInt == 0 - 1             \* Python's None, where the other values are integers >= 0

\* 2-decimal values of 1/(1+exp(-z)) at z = 0, 1, ..., 6
LogisticTable == <<50, 73, 88, 95, 98, 99, 100>>

\* 1 / (1 + np.exp(-z)) for z in fixed point; the result is in fixed point
Logistic(z) ==
    LET a == IF z < 0 THEN 0 - z ELSE z
        q == a \div FP
        v == IF q >= Len(LogisticTable) - 1 THEN FP
             ELSE LogisticTable[q + 1]
                  + ((LogisticTable[q + 2] - LogisticTable[q + 1]) * (a % FP)) \div FP
    IN  IF z < 0 THEN FP - v ELSE v

\* an ndarray: the sequence with every element evaluated
array(f) == f \o <<>>

\* ndarray.clip(lo, hi) on one element: minimum(maximum(v, lo), hi)
clip(v, lo, hi) ==
    LET m == IF v < lo THEN lo ELSE v
    IN  IF m > hi THEN hi ELSE m

\* np.repeat(arr, n): every element n times
repeat(arr, n) == array([m \in 1..(Len(arr) * n) |-> arr[((m - 1) \div n) + 1]])

\* np.ones(n) * v
ones(n, v) == array([m \in 1..n |-> v])

\* np.insert(arr, idx, values) for a 0-based idx, negative idx counting from the end
insert(arr, idx, values) ==
    LET at == IF idx < 0 THEN Len(arr) + idx ELSE idx
    IN  SubSeq(arr, 1, at) \o values \o SubSeq(arr, at + 1, Len(arr))

-----------------------------------------------------------------------------
(* __init__ *)

MinInter == 10               \* `self.inter = int(upscale) if upscale >= 10 else 10`
DefaultK == 10               \* `self.k = 10`
MaxIntensity == 255          \* top of the 'L' grey scale, the 255 of _y

\* self.inter as __init__ derives it from upscale
InterOf(upscale) == IF upscale >= MinInter THEN upscale ELSE MinInter

\* self.h, self.w = self.im.shape
Height(image) == Len(image)
Width(image) == Len(image[1])

-----------------------------------------------------------------------------
(* _x: the sample grid *)

\* np.linspace(0, stop, num): num evenly spaced samples over [0, stop]
linspace(stop, num) ==
    array([m \in 1..num |-> ((m - 1) * stop * FP) \div (num - 1)])

\* body of _x
x_body(image, n) == linspace(Width(image), Width(image) * n)

-----------------------------------------------------------------------------
(* _y: the ribbon curve generator *)

\* y_min without the half unit: weights[0] / 2
y_min_no_half(weights) == weights[1] \div 2

y_min(weights) == weights[1] \div 2 + FP \div 2
y_max(weights) == weights[2] \div 2 + FP \div 2
clip_min(weight_clipping) == (FP - weight_clipping[2]) * MaxIntensity
clip_max(weight_clipping) == (FP - weight_clipping[1]) * MaxIntensity

\* "apply clipping": one intensity p clipped into [clip_min, clip_max] and
\* rescaled to [0, 255]
rescale(p, weight_clipping) ==
    LET lo == clip_min(weight_clipping)
        hi == clip_max(weight_clipping)
    IN  ((clip(p * FP, lo, hi) - lo) * MaxIntensity * FP) \div (hi - lo)

\* offset_of with the intensity mapped the wrong way round: y_min + line * ...
offset_of_inverted(p, weights, weight_clipping) ==
    y_min(weights)
    + (rescale(p, weight_clipping) * (y_max(weights) - y_min(weights)))
      \div (MaxIntensity * FP)

\* y_max - line * (y_max - y_min) / 255 for one pixel: half the ribbon's thickness
\* there, plus 0.5
offset_of(p, weights, weight_clipping) ==
    y_max(weights)
    - (rescale(p, weight_clipping) * (y_max(weights) - y_min(weights)))
      \div (MaxIntensity * FP)

\* y_offset before padding: np.repeat(y_max - line[:-1] * ..., self.inter)
y_offset_of(line, weights, weight_clipping, n) ==
    repeat(array([j \in 1..(Len(line) - 1) |->
                     offset_of(line[j], weights, weight_clipping)]), n)

\* L before padding: np.repeat(y_max - line[1:] * ..., self.inter) - y_offset
L_of(line, weights, weight_clipping, n) ==
    LET nxt == repeat(array([j \in 1..(Len(line) - 1) |->
                                offset_of(line[j + 1], weights, weight_clipping)]), n)
        off == y_offset_of(line, weights, weight_clipping, n)
    IN  array([m \in 1..Len(off) |-> nxt[m] - off[m]])

\* x0 before padding: np.repeat(np.arange(1, self.w), self.inter)
x0_of(line, n) == repeat(array([j \in 1..(Len(line) - 1) |-> j]), n)

\* repeat_head_tail with the tail padded by arr[0] instead of arr[-1]
repeat_head_tail_first(arr, n) ==
    LET repeated == insert(insert(arr, 0, ones(n \div 2, arr[1])),
                           -1,
                           ones(n \div 2, arr[1]))
    IN  IF n % 2 # 0 THEN Append(repeated, repeated[Len(repeated)]) ELSE repeated

\* repeat_head_tail: n // 2 copies of arr[0] in front, n // 2 copies of arr[-1]
\* inserted before the last element, and the last point once more when n is odd
repeat_head_tail(arr, n) ==
    LET repeated == insert(insert(arr, 0, ones(n \div 2, arr[1])),
                           -1,
                           ones(n \div 2, arr[Len(arr)]))
    IN  IF n % 2 # 0 THEN Append(repeated, repeated[Len(repeated)]) ELSE repeated

\* y_top of row i: i + L / (1 + exp(-k * (x - x0))) + y_offset
y_top_of(i, line, weights, weight_clipping, kk, n, x) ==
    LET y_offset == repeat_head_tail(y_offset_of(line, weights, weight_clipping, n), n)
        L        == repeat_head_tail(L_of(line, weights, weight_clipping, n), n)
        x0       == repeat_head_tail(x0_of(line, n), n)
    IN  array([m \in 1..Len(x) |->
            i * FP + (L[m] * Logistic(kk * (x[m] - x0[m] * FP))) \div FP + y_offset[m]])

\* y_bot mirrored about i instead of i + 1/2: 2 * i - y_top
y_bot_of_row(i, y_top) == array([m \in 1..Len(y_top) |-> 2 * i * FP - y_top[m]])

\* y_bot of row i: 2 * i + 1 - y_top
y_bot_of(i, y_top) == array([m \in 1..Len(y_top) |-> (2 * i + 1) * FP - y_top[m]])

\* the skip test on 1-based row numbers
retained_from_one(i, skip) == (i + 1) % (skip + 1) = 0

\* `if i % (skip + 1): continue` -- the rows the loop keeps
retained(i, skip) == i % (skip + 1) = 0

\* the 0-based indices of the rows _y keeps, in the order of enumerate(self.im)
rows_of(image, skip) ==
    SelectSeq(array([r \in 1..Height(image) |-> r - 1]), LAMBDA i : retained(i, skip))

\* repeat_head_tail reads arr[0] of an empty array when the image is one pixel wide
y_raises(image) == Width(image) = 1

\* body of _y: the list of (y_top, y_bot) pairs, one per retained row
y_body(image, n, kk, weights, weight_clipping, skip, x) ==
    LET rows == rows_of(image, skip)
    IN  array([j \in 1..Len(rows) |->
            LET y_top == y_top_of(rows[j], image[rows[j] + 1], weights,
                                  weight_clipping, kk, n, x)
            IN  <<y_top, y_bot_of(rows[j], y_top)>>])

-----------------------------------------------------------------------------
(* functools.lru_cache: a memo table is a sequence of [key, value] entries, *)
(* least recently used first                                                *)

maxsize == 128               \* lru_cache() keeps at most 128 entries per function

Hit(cache, key) == \E j \in 1..Len(cache) : cache[j].key = key

CacheIndex(cache, key) == CHOOSE j \in 1..Len(cache) : cache[j].key = key

CacheGet(cache, key) == cache[CacheIndex(cache, key)].value

\* a hit makes the entry the most recently used one
Touch(cache, key) ==
    LET at == CacheIndex(cache, key)
    IN  SubSeq(cache, 1, at - 1) \o SubSeq(cache, at + 1, Len(cache)) \o <<cache[at]>>

\* a miss stores the result, dropping the least recently used entry of a full table
Put(cache, key, value) ==
    Append(IF Len(cache) >= maxsize THEN Tail(cache) ELSE cache,
           [key |-> key, value |-> value])

\* the table after a call with `key`: `hit` says whether the wrapper found the key,
\* `value` is what the body returns when it runs
AfterCall(cache, key, hit, value) ==
    IF hit THEN Touch(cache, key) ELSE Put(cache, key, value)

\* cache_clear that ignores its parameter and empties every table
Cleared_all(name, parameter, cache) == <<>>

\* the table of the memoized function `name` after cache_clear(parameter)
Cleared(name, parameter, cache) ==
    IF parameter = None \/ parameter = name THEN <<>> ELSE cache

\* set_k without the call of cache_clear
AfterSetK_kept(cache) == cache

\* the table of any of the three functions after set_k: `self.cache_clear()`
AfterSetK(cache) == <<>>

\* whether the wrappers of _x, _y and _noise find their key
x_hit == Hit(xcache, <<>>)
y_hit(weights, weight_clipping, skip) == Hit(ycache, <<weights, weight_clipping, skip>>)
\* _noise without the memo table: the wrapper never finds its key
noise_hit_never(noise) == FALSE

noise_hit(noise) == Hit(ncache, <<noise>>)

-----------------------------------------------------------------------------
(* Noise, numpy.random, colours, figures *)

RngStates == {0, 1}          \* the states of numpy's global generator in the model

NumNoise == 1                \* generators 1..NumNoise draw from numpy.random; the
                             \* generators above return offsets fixed by their identity

IsRandom(noise) == noise <= NumNoise

\* one offset in fixed point drawn in state r at position pos: -0.1, 0 or 0.1
RandomOffset(r, pos) == (((r * 2 + pos) % 3) - 1) * 10

\* noise(self.h, self.w * self.inter): one (top, bottom) offset pair per image row
NoiseCall(noise, r, hh) ==
    LET s == IF IsRandom(noise) THEN r ELSE 0
    IN  array([row \in 1..hh |->
                  <<RandomOffset(s, noise + row), RandomOffset(s, noise + 2 * row)>>])

\* numpy's global generator after the call
NoiseAdvance(noise, r) ==
    IF IsRandom(noise) THEN (r + 1) % Cardinality(RngStates) ELSE r

\* body of _noise
noise_body(noise, r, hh) ==
    IF noise # NoneInt THEN NoiseCall(noise, r, hh) ELSE array([row \in 1..hh |-> <<0, 0>>])

\* _colour for a str (a one-element list) and for any other iterable (itself); a
\* colour argument is [kind, name, list], with the name of a str or the list filled in
colour_of(colour) == IF colour.kind = "str" THEN <<colour.name>> ELSE colour.list

\* the figure an axes belongs to: self.ax of __init__ was added to self.fig
FigureOf(axes) == IF axes = "own" THEN "self.fig" ELSE "ext.fig"

\* element j (1-based) of itertools.cycle(seq)
cycle(seq, j) == seq[((j - 1) % Len(seq)) + 1]

\* the fill_between calls of draw, in order: zip(y, cycle(n), cycle(c))
fills_of(y, n, c) ==
    IF Len(n) = 0 \/ Len(c) = 0 THEN <<>>
    ELSE array([j \in 1..Len(y) |->
            LET y_0 == y[j][1]
                y_1 == y[j][2]
                n_  == cycle(n, j)
                n_0 == n_[1]
                n_1 == n_[2]
            IN  [y_top |-> array([m \in 1..Len(y_0) |-> y_0[m] + n_0]),
                 y_bot |-> array([m \in 1..Len(y_1) |-> y_1[m] + n_1]),
                 color |-> cycle(c, j)]])

-----------------------------------------------------------------------------
(* The operations *)

Ok(value) == [value |-> value, raised |-> None]
Raised(exc) == [value |-> None, raised |-> exc]

\* the history of _noise keys after a call with key `noise`, least recently used
\* first: each key with the result of its first call and whether it has been among
\* the maxsize most recently used keys at every use since; `value` is the result
\* of this call
HistAfter(hist, noise, value) ==
    IF Hit(hist, <<noise>>)
    THEN LET at == CacheIndex(hist, <<noise>>)
         IN  SubSeq(hist, 1, at - 1) \o SubSeq(hist, at + 1, Len(hist))
             \o <<[key |-> <<noise>>,
                   value |-> hist[at].value,
                   kept |-> hist[at].kept /\ at > Len(hist) - maxsize]>>
    ELSE Append(hist, [key |-> <<noise>>, value |-> value, kept |-> TRUE])

\* self._x()
CallX ==
    /\ xcache' = AfterCall(xcache, <<>>, x_hit, x_body(im, inter))
    /\ ret' = Ok(CacheGet(xcache', <<>>))
    /\ computed' = IF x_hit THEN {} ELSE {"_x"}
    /\ call' = [op |-> "_x", args |-> <<>>]
    /\ UNCHANGED <<im, inter, k, ax, ycache, ncache, rng, artists, nhist>>

\* self._y(weights, weight_clipping, skip).  On a miss the body runs: it raises
\* IndexError for an image one pixel wide (nothing is stored), and otherwise calls
\* self._x() for every retained row.
CallY(weights, weight_clipping, skip) ==
    LET key == <<weights, weight_clipping, skip>>
        hit == y_hit(weights, weight_clipping, skip)
    IN  /\ call' = [op |-> "_y", args |-> key]
        /\ UNCHANGED <<im, inter, k, ax, ncache, rng, artists, nhist>>
        /\ IF hit
           THEN /\ ycache' = Touch(ycache, key)
                /\ ret' = Ok(CacheGet(ycache, key))
                /\ computed' = {}
                /\ UNCHANGED xcache
           ELSE IF y_raises(im)
           THEN /\ ret' = Raised("IndexError")
                /\ computed' = {"_y"}
                /\ UNCHANGED <<xcache, ycache>>
           ELSE /\ xcache' = AfterCall(xcache, <<>>, x_hit, x_body(im, inter))
                /\ ycache' = Put(ycache, key,
                                 y_body(im, inter, k, weights, weight_clipping, skip,
                                        CacheGet(xcache', <<>>)))
                /\ ret' = Ok(CacheGet(ycache', key))
                /\ computed' = {"_y"} \cup (IF x_hit THEN {} ELSE {"_x"})

\* self._noise(noise)
CallNoise(noise) ==
    LET hit == noise_hit(noise)
    IN  /\ ncache' = AfterCall(ncache, <<noise>>, hit, noise_body(noise, rng, Height(im)))
        /\ rng' = IF hit \/ noise = NoneInt THEN rng ELSE NoiseAdvance(noise, rng)
        /\ ret' = Ok(CacheGet(ncache', <<noise>>))
        /\ computed' = IF hit THEN {} ELSE {"_noise"}
        /\ nhist' = HistAfter(nhist, noise, ret'.value)
        /\ call' = [op |-> "_noise", args |-> <<noise>>]
        /\ UNCHANGED <<im, inter, k, ax, xcache, ycache, artists>>

\* cache_clear(parameter): parameter is None or the name of a memoized method
cache_clear(parameter) ==
    /\ xcache' = Cleared("_x", parameter, xcache)
    /\ ycache' = Cleared("_y", parameter, ycache)
    /\ ncache' = Cleared("_noise", parameter, ncache)
    /\ nhist' = IF parameter \in {None, "_noise"} THEN <<>> ELSE nhist
    /\ ret' = Ok(None)
    /\ computed' = {}
    /\ call' = [op |-> "cache_clear", args |-> <<parameter>>]
    /\ UNCHANGED <<im, inter, k, ax, rng, artists>>

\* set_k(k)
set_k(kk) ==
    /\ k' = kk
    /\ xcache' = AfterSetK(xcache)
    /\ ycache' = AfterSetK(ycache)
    /\ ncache' = AfterSetK(ncache)
    /\ nhist' = <<>>
    /\ ret' = Ok(None)
    /\ computed' = {}
    /\ call' = [op |-> "set_k", args |-> <<kk>>]
    /\ UNCHANGED <<im, inter, ax, rng, artists>>

\* draw(weights, weight_clipping, noise, colour, skip, background, None, seed, axarg):
\* modifiers is None.  np.random.seed, then _x, _y, _noise and _colour, then the axes
\* is replaced, cleared and filled; self.fig is returned.
draw(weights, weight_clipping, noise, colour, skip, background, seed, axarg) ==
    LET key    == <<weights, weight_clipping, skip>>
        yhit   == y_hit(weights, weight_clipping, skip)
        nhit   == noise_hit(noise)
        seeded == IF seed # NoneInt THEN seed ELSE rng
        target == IF axarg # None THEN axarg ELSE ax
    IN  /\ call' = [op |-> "draw",
                    args |-> <<weights, weight_clipping, noise, colour, skip,
                               background, seed, axarg>>]
        /\ xcache' = AfterCall(xcache, <<>>, x_hit, x_body(im, inter))
        /\ UNCHANGED <<im, inter, k>>
        /\ IF ~yhit /\ y_raises(im)
           THEN /\ ret' = Raised("IndexError")
                /\ rng' = seeded
                /\ computed' = (IF x_hit THEN {} ELSE {"_x"}) \cup {"_y"}
                /\ UNCHANGED <<ax, ycache, ncache, artists, nhist>>
           ELSE /\ ycache' = AfterCall(ycache, key, yhit,
                                       y_body(im, inter, k, weights, weight_clipping,
                                              skip, CacheGet(xcache', <<>>)))
                /\ ncache' = AfterCall(ncache, <<noise>>, nhit,
                                       noise_body(noise, seeded, Height(im)))
                /\ rng' = IF nhit \/ noise = NoneInt THEN seeded
                          ELSE NoiseAdvance(noise, seeded)
                /\ nhist' = HistAfter(nhist, noise, CacheGet(ncache', <<noise>>))
                /\ computed' = (IF x_hit THEN {} ELSE {"_x"})
                               \cup (IF yhit THEN {} ELSE {"_y"})
                               \cup (IF nhit THEN {} ELSE {"_noise"})
                /\ ax' = target
                /\ artists' = [artists EXCEPT ![target] =
                                  [background |-> background,
                                   fills |-> fills_of(CacheGet(ycache', key),
                                                      CacheGet(ncache', <<noise>>),
                                                      colour_of(colour))]]
                /\ ret' = Ok(FigureOf("own"))

-----------------------------------------------------------------------------
(* Inputs of the model *)

MaxH == 3                    \* tallest image
MaxW == 3                    \* widest image
MaxPattern == 0              \* images are the patterns 0..MaxPattern at each size
MaxUpscale == 11             \* largest upscale passed to __init__
MaxSkip == 2                 \* largest row-skip stride
MaxColours == 2              \* longest colour list

\* intensity of pixel (r, c), 0-based, of pattern g
Pixel(g, r, c) == ((g + 1) * (r * 97 + c * 61) + g * MaxIntensity) % (MaxIntensity + 1)

MakeImage(hh, ww, g) ==
    array([r \in 1..hh |-> array([c \in 1..ww |-> Pixel(g, r - 1, c - 1)])])

Images == {MakeImage(hh, ww, g) : hh \in 1..MaxH, ww \in 1..MaxW, g \in 0..MaxPattern}

Upscales == 9..MaxUpscale

KValues == {1, 5, DefaultK}

\* weights and weight_clipping in fixed point
DefaultWeights == <<0, FP>>
DefaultClipping == <<0, FP>>
WeightPairs == {DefaultWeights, <<40, FP>>, <<60, 60>>, <<FP, 40>>}
ClipPairs == {DefaultClipping, <<0, 30>>, <<30, 80>>}

Noises == {NoneInt} \cup 1..NumNoise
Parameters == {None, "_x", "_y", "_noise"}

Palette == <<"red", "green", "blue", "cyan">>
DefaultColour == [kind |-> "str", name |-> "black", list |-> <<>>]
Colours == {DefaultColour}
           \cup {[kind |-> "list", name |-> "", list |-> SubSeq(Palette, 1, n)] :
                    n \in 1..MaxColours}

BlankAxes == [background |-> "default", fills |-> <<>>]

\* the instance after __init__(image, upscale), before any call
Constructed(image, upscale) ==
    /\ im = image
    /\ inter = InterOf(upscale)
    /\ k = DefaultK
    /\ ax = "own"
    /\ xcache = <<>>
    /\ ycache = <<>>
    /\ ncache = <<>>
    /\ nhist = <<>>
    /\ artists = [a \in {"own", "ext"} |-> BlankAxes]
    /\ ret = Ok(None)
    /\ computed = {}

-----------------------------------------------------------------------------
(* The memo tables: the memoized calls, cache_clear, set_k and a default draw *)

Init ==
    /\ Constructed(MakeImage(2, 2, 0), MinInter)
    /\ rng \in RngStates
    /\ call = [op |-> "__init__", args |-> <<>>]

Next ==
    \/ CallX
    \/ \E skip \in 0..1 : CallY(DefaultWeights, DefaultClipping, skip)
    \/ \E noise \in Noises : CallNoise(noise)
    \/ \E parameter \in Parameters : cache_clear(parameter)
    \/ \E kk \in {1, DefaultK} : set_k(kk)
    \/ draw(DefaultWeights, DefaultClipping, NoneInt, DefaultColour, 0, "white",
            NoneInt, None)

Spec == Init /\ [][Next]_vars

-----------------------------------------------------------------------------
(* _y as a function of the image, inter, k and its arguments: the initial  *)
(* state draws the inputs and one call is made                              *)

InitY ==
    /\ \E image \in Images, upscale \in Upscales : Constructed(image, upscale)
    /\ rng = 0
    /\ \E weights \in WeightPairs, weight_clipping \in ClipPairs, skip \in 0..MaxSkip :
          call = [op |-> "pending", args |-> <<weights, weight_clipping, skip>>]

\* set_k(kk) before the call
SetKY ==
    /\ call.op = "pending"
    /\ k = DefaultK
    /\ \E kk \in KValues \ {DefaultK} :
          /\ k' = kk
          /\ UNCHANGED <<im, inter, ax, xcache, ycache, ncache, rng, artists, call, ret,
                         computed, nhist>>

ApplyY ==
    /\ call.op = "pending"
    /\ CallY(call.args[1], call.args[2], call.args[3])

NextY == SetKY \/ ApplyY

SpecY == InitY /\ [][NextY]_vars

-----------------------------------------------------------------------------
(* draw on the instance's own axes and on an external one, with set_k *)

InitDraw ==
    /\ Constructed(MakeImage(MaxH, 2, 0), MinInter)
    /\ rng = 0
    /\ call = [op |-> "__init__", args |-> <<>>]

NextDraw ==
    \/ \E colour \in Colours, skip \in 0..1, axarg \in {None, "ext"} :
          draw(DefaultWeights, DefaultClipping, NoneInt, colour, skip, "white",
               NoneInt, axarg)
    \/ \E kk \in {1, DefaultK} : set_k(kk)

SpecDraw == InitDraw /\ [][NextDraw]_vars

-----------------------------------------------------------------------------
(* draw with noise: generator 1 and, one after the other, as many further   *)
(* generators as it takes to fill the memo table of _noise                  *)

InitNoise ==
    /\ Constructed(MakeImage(1, 2, 0), MinInter)
    /\ rng = 1
    /\ call = [op |-> "__init__", args |-> <<>>]

\* the next generator not yet used since the table was cleared
NextGenerator == NumNoise + 1 + Len(SelectSeq(nhist, LAMBDA e : ~IsRandom(e.key[1])))

NextNoise ==
    \/ \E seed \in {NoneInt, 0} :
          draw(DefaultWeights, DefaultClipping, 1, DefaultColour, 0, "white", seed, None)
    \/ /\ NextGenerator <= NumNoise + maxsize
       /\ draw(DefaultWeights, DefaultClipping, NextGenerator, DefaultColour, 0, "white",
               NoneInt, None)
    \/ cache_clear("_noise")

SpecNoise == InitNoise /\ [][NextNoise]_vars

-----------------------------------------------------------------------------
(* Properties of _y, checked under SpecY *)

\* a call of _y has returned its list of (y_top, y_bot) pairs
ReturnedY == call.op = "_y" /\ ret.raised = None

ArgWeights == call.args[1]
ArgClipping == call.args[2]
ArgSkip == call.args[3]

\* the curves of the pair at position j of the returned list
TopOf(j) == ret.value[j][1]
BotOf(j) == ret.value[j][2]

\* the image row the pair at position j belongs to
RowOf(j) == rows_of(im, ArgSkip)[j]

\* some returned curve is not flat
SomeRamp == \E j \in 1..Len(ret.value) : \E m \in 2..Len(TopOf(j)) : TopOf(j)[m] # TopOf(j)[1]

\* C1: for every retained row i and every sample, the bottom curve is the mirror of
\* the top curve about the row centre: bottom = 2*i + 1 - top, for every weights,
\* weight_clipping, skip and k.
C1_Mirror ==
    ReturnedY =>
        \A j \in 1..Len(ret.value) :
            /\ Len(BotOf(j)) = Len(TopOf(j))
            /\ \A m \in 1..Len(TopOf(j)) :
                  BotOf(j)[m] = (2 * RowOf(j) + 1) * FP - TopOf(j)[m]

\* a call with a skip and a non-default k returned at least two ribbons with a ramp
C1_Witness ==
    /\ ReturnedY
    /\ ArgSkip >= 1
    /\ k # DefaultK
    /\ Len(ret.value) >= 2
    /\ SomeRamp

\* the arguments C2 and C3 speak of
OrderedWeights == 0 <= ArgWeights[1] /\ ArgWeights[1] <= ArgWeights[2]
OrderedClipping == ArgClipping[1] < ArgClipping[2]

\* C2 as claimed: for weights (a, b) with 0 <= a <= b and weight_clipping (c0, c1)
\* with c0 < c1, top < bottom at every sample of every returned row.
C2_TopBelowBottom ==
    (ReturnedY /\ OrderedWeights /\ OrderedClipping) =>
        \A j \in 1..Len(ret.value) : \A m \in 1..Len(TopOf(j)) : TopOf(j)[m] < BotOf(j)[m]

\* C2 as amended: under the same conditions top >= bottom at every sample, and
\* top - bottom lies between a and b.
C2_TopNotBelowBottom ==
    (ReturnedY /\ OrderedWeights /\ OrderedClipping) =>
        \A j \in 1..Len(ret.value) : \A m \in 1..Len(TopOf(j)) :
            /\ TopOf(j)[m] >= BotOf(j)[m]
            /\ TopOf(j)[m] - BotOf(j)[m] >= ArgWeights[1]
            /\ TopOf(j)[m] - BotOf(j)[m] <= ArgWeights[2]

\* a call with 0 < a < b returned a ribbon whose thickness varies
C2_Witness ==
    /\ ReturnedY
    /\ OrderedClipping
    /\ 0 < ArgWeights[1]
    /\ ArgWeights[1] < ArgWeights[2]
    /\ SomeRamp

\* the ribbon thickness _y aims at for a pixel of intensity p: top - bottom where
\* the curve is flat, 2 * y_offset - 1
Thickness(p) == 2 * offset_of(p, ArgWeights, ArgClipping) - FP

\* C3: for weights (a, b) with a < b and weight_clipping (c0, c1) with c0 < c1, the
\* target thickness is non-increasing in the intensity; every intensity up to
\* (1 - c1)*255 gets b, every intensity from (1 - c0)*255 on gets a, and every
\* thickness lies in [a, b].
C3_ThicknessMonotone ==
    (ReturnedY /\ ArgWeights[1] < ArgWeights[2] /\ OrderedClipping) =>
        \A p \in 0..MaxIntensity :
            /\ p < MaxIntensity => Thickness(p) >= Thickness(p + 1)
            /\ p * FP <= clip_min(ArgClipping) => Thickness(p) = ArgWeights[2]
            /\ p * FP >= clip_max(ArgClipping) => Thickness(p) = ArgWeights[1]
            /\ ArgWeights[1] <= Thickness(p)
            /\ Thickness(p) <= ArgWeights[2]

\* a call with a < b and a clipping window strictly inside the grey scale, on an image
\* with a pixel inside the window and one on either side of it
C3_Witness ==
    /\ ReturnedY
    /\ ArgWeights[1] < ArgWeights[2]
    /\ OrderedClipping
    /\ 0 < clip_min(ArgClipping)
    /\ clip_max(ArgClipping) < MaxIntensity * FP
    /\ \E r1, r2, r3 \in 1..Height(im) : \E c1, c2, c3 \in 1..Width(im) :
          /\ im[r1][c1] * FP < clip_min(ArgClipping)
          /\ im[r2][c2] * FP > clip_max(ArgClipping)
          /\ Thickness(im[r3][c3]) \notin {ArgWeights[1], ArgWeights[2]}

\* C4: for every skip s >= 0, _y returns, in increasing row order, exactly the rows i
\* with i mod (s + 1) = 0 (ceil(H / (s + 1)) pairs), and the pair of each retained row
\* equals the pair _y returns for that row with skip 0.
C4_SkipKeepsShape ==
    ReturnedY =>
        LET all == y_body(im, inter, k, ArgWeights, ArgClipping, 0, x_body(im, inter))
        IN  /\ Len(all) = Height(im)
            /\ Len(ret.value) = (Height(im) + ArgSkip) \div (ArgSkip + 1)
            /\ \A j \in 1..Len(ret.value) :
                  ret.value[j] = all[(j - 1) * (ArgSkip + 1) + 1]

\* a call with a skip on an image with more rows than the stride: rows are dropped
\* and more than one is kept
C4_Witness ==
    /\ ReturnedY
    /\ ArgSkip >= 1
    /\ Len(ret.value) >= 2
    /\ Len(ret.value) < Height(im)

\* the three per-sample arrays of row `line` before padding
Unpadded(line) ==
    <<y_offset_of(line, ArgWeights, ArgClipping, inter),
      L_of(line, ArgWeights, ArgClipping, inter),
      x0_of(line, inter)>>

\* C7: for every width W and every density S (even or odd), each top and bottom
\* curve has exactly W*S samples, as many as the sample grid _x; the first S/2
\* samples use the first boundary's values and the samples after the last
\* boundary's use the last boundary's values.
C7_PaddedLength ==
    ReturnedY =>
        /\ Len(x_body(im, inter)) = Width(im) * inter
        /\ \A j \in 1..Len(ret.value) :
              /\ Len(TopOf(j)) = Width(im) * inter
              /\ Len(BotOf(j)) = Width(im) * inter
              /\ \A a \in 1..3 :
                    LET arr    == Unpadded(im[RowOf(j) + 1])[a]
                        padded == repeat_head_tail(arr, inter)
                        half   == inter \div 2
                    IN  /\ Len(padded) = Width(im) * inter
                        /\ \A m \in 1..half : padded[m] = arr[1]
                        /\ \A m \in 1..Len(arr) : padded[half + m] = arr[m]
                        /\ \A m \in (half + Len(arr) + 1)..Len(padded) :
                              padded[m] = arr[Len(arr)]

\* a call on an image three pixels wide with an odd density whose first and last
\* boundary differ
C7_Witness ==
    /\ ReturnedY
    /\ inter % 2 = 1
    /\ Width(im) >= 3
    /\ LET arr == Unpadded(im[1])[1] IN arr[1] # arr[Len(arr)]

-----------------------------------------------------------------------------
(* Properties of the memo tables, checked under Spec *)

\* a step that is cache_clear(p) with p naming one memoized function leaves the
\* tables of the other two functions as they were and empties the one of p
ClearStep ==
    (call'.op = "cache_clear" /\ call'.args[1] # None) =>
        /\ xcache' = IF call'.args[1] = "_x" THEN <<>> ELSE xcache
        /\ ycache' = IF call'.args[1] = "_y" THEN <<>> ELSE ycache
        /\ ncache' = IF call'.args[1] = "_noise" THEN <<>> ELSE ncache

\* a step that calls a memoized function with a key its table holds returns the
\* stored value and runs no body of that function
HitStep ==
    /\ (call'.op = "_x" /\ Hit(xcache, <<>>)) =>
          /\ "_x" \notin computed'
          /\ ret' = Ok(CacheGet(xcache, <<>>))
    /\ (call'.op = "_y" /\ Hit(ycache, call'.args)) =>
          /\ "_y" \notin computed'
          /\ ret' = Ok(CacheGet(ycache, call'.args))
    /\ (call'.op = "_noise" /\ Hit(ncache, call'.args)) =>
          /\ "_noise" \notin computed'
          /\ ret' = Ok(CacheGet(ncache, call'.args))

\* C5: after any sequence of _x, _y and _noise calls, cache_clear(p) with p naming
\* one memoized function empties only that function's table; every entry of the
\* other two tables is still present and the next call with its key is a hit that
\* recomputes nothing.
C5_ClearIsolated == [][ClearStep /\ HitStep]_vars

\* cache_clear("_y") has just emptied the table of _y while the tables of _x and
\* _noise still hold their entries
C5_Witness ==
    /\ call.op = "cache_clear"
    /\ call.args[1] = "_y"
    /\ ycache = <<>>
    /\ xcache # <<>>
    /\ Len(ncache) >= 2

-----------------------------------------------------------------------------
(* Properties of draw, checked under SpecDraw *)

\* draw has returned normally
ReturnedDraw == call.op = "draw" /\ ret.raised = None

\* what _y computes for `key` under the instance's current k
CurrentCurves(key) == y_body(im, inter, k, key[1], key[2], key[3], x_body(im, inter))

\* C6: after set_k(k) the tables of _x, _y and _noise are all empty, so in any
\* sequence of draw and set_k calls every curve pair _y holds or returns, and every
\* ribbon draw has just filled, was computed with the instance's current k.
C6_CurvesUseCurrentK ==
    /\ call.op = "set_k" => (xcache = <<>> /\ ycache = <<>> /\ ncache = <<>>)
    /\ \A j \in 1..Len(ycache) : ycache[j].value = CurrentCurves(ycache[j].key)
    /\ ReturnedDraw =>
          LET key == <<call.args[1], call.args[2], call.args[5]>>
              y   == CurrentCurves(key)
          IN  /\ Len(artists[ax].fills) = Len(y)
              /\ \A j \in 1..Len(y) :
                    /\ artists[ax].fills[j].y_top = y[j][1]
                    /\ artists[ax].fills[j].y_bot = y[j][2]

\* a draw under one k filled the instance's own axes, set_k changed k, and a later
\* draw recomputed its curves and filled the external axes with different ones
C6_Witness ==
    /\ ReturnedDraw
    /\ ax = "ext"
    /\ "_y" \in computed
    /\ artists["own"].fills # <<>>
    /\ artists["own"].fills[1].y_top # artists["ext"].fills[1].y_top

\* C8 as claimed: draw colours the ribbon of image row i with entry (i mod n) of the
\* resolved sequence of n colours, for every skip; a single colour string is a
\* one-element sequence applied to every ribbon.
C8_ColourByImageRow ==
    ReturnedDraw =>
        LET c    == colour_of(call.args[4])
            rows == rows_of(im, call.args[5])
        IN  /\ call.args[4].kind = "str" => c = <<call.args[4].name>>
            /\ Len(artists[ax].fills) = Len(rows)
            /\ \A j \in 1..Len(rows) :
                  artists[ax].fills[j].color = c[(rows[j] % Len(c)) + 1]

\* C9 as claimed: every draw returns the figure that owns the axes on which the
\* ribbons were just filled, also when an axes is passed through ax and in later
\* draws made without ax.
C9_ReturnsOwningFigure ==
    ReturnedDraw =>
        /\ artists[ax].fills # <<>>
        /\ ret.value = FigureOf(ax)

-----------------------------------------------------------------------------
(* Properties of _noise in draw, checked under SpecNoise *)

\* the offsets draw has applied: what separates the filled curves from those of _y
AppliedNoise(fills, y) ==
    [j \in 1..Len(fills) |-> <<fills[j].y_top[1] - y[j][1][1], fills[j].y_bot[1] - y[j][2][1]>>]

\* a step that is a draw with a generator used before, since the last clear
RepeatedNoise ==
    /\ call'.op = "draw"
    /\ ret'.raised = None
    /\ Hit(nhist, <<call'.args[3]>>)

\* the step left the generator alone and applied the offsets of its first call
UsesFirstOffsets ==
    /\ "_noise" \notin computed'
    /\ AppliedNoise(artists'[ax'].fills,
                    CacheGet(ycache', <<call'.args[1], call'.args[2], call'.args[5]>>))
         = CacheGet(nhist, <<call'.args[3]>>)

\* the generator of the step has been among the maxsize most recently used keys of
\* _noise at every use since its first call, this one included
NeverEvicted == nhist'[CacheIndex(nhist', <<call'.args[3]>>)].kept

\* C10 as claimed: once draw has been called with a generator N, every later draw
\* with the same N and no cache clear in between uses the offsets of the first call:
\* N is not invoked again, whatever seed the later draw is given.
C10_NoiseComputedOnce == [][RepeatedNoise => UsesFirstOffsets]_vars

\* C10 as amended: the same, provided that between any two consecutive uses of N
\* since the first call fewer than maxsize other keys of _noise were used.
C10_NoiseComputedOnceWhileKept ==
    [][(RepeatedNoise /\ NeverEvicted) => UsesFirstOffsets]_vars

\* a seeded draw with generator 1 found its offsets in a full memo table: maxsize - 1
\* other generators were used since its first draw
C10_Witness ==
    /\ ReturnedDraw
    /\ call.args[3] = 1
    /\ call.args[7] = 0
    /\ "_noise" \notin computed
    /\ Len(ncache) = maxsize

====
